---------------------------- MODULE Spec2Model ----------------------------
(***************************************************************************)
(* A model of yt_fetch.py: the channel URL normaliser, the downloaded-set  *)
(* tracker, the entry classifier and the download loop of download_videos. *)
(* Strings are sequences of one-character strings, so that prefix tests,   *)
(* trimming, splitting and pattern matching are computed, not assumed.     *)
(***************************************************************************)
EXTENDS Integers, Sequences, FiniteSets, TLC

VARIABLES
    pc,                \* position of the program
    norm_in,           \* normalize_channel_url: the argument
    norm_out,          \* normalize_channel_url(norm_in)
    norm_again,        \* normalize_channel_url(norm_out)
    probe,             \* is_public_video: the entry it is applied to
    verdict,           \* is_public_video(probe)
    archive,           \* ARCHIVE_FILE: the sequence of its lines
    files,             \* DOWNLOAD_DIR: the set of its file names
    downloaded_ids,    \* the set get_downloaded_ids() returned
    args_channel,      \* args.channel
    count,             \* args.count
    include_shorts,    \* args.include_shorts
    sleep_seconds,     \* args.sleep
    channel_url,       \* main: normalize_channel_url(args.channel)
    remaining_count,   \* download_videos: max(0, count - existing_count)
    channel_urls,      \* download_videos: channel_urls_with_params
    all_entries,       \* download_videos: the entries gathered from the pages
    entries_to_download, \* download_videos: the filtered entries
    loop_i,            \* download_videos: i, the loop's index into entries_to_download
    downloaded_count,  \* download_videos: successes counted in this run
    downloaded_list,   \* download_videos: the records of this run
    downloaded_files,  \* download_videos: video id -> path, kept by progress_hook
    exit_code,         \* the code the process exited with, Running while it runs
    palette,           \* the kinds of entry the channel's pages hold
    faults_left,       \* how many more irregular downloads the run may meet
    listed,            \* history: what each queried page held, in query order
    queried,           \* history: the URLs passed to extract_info
    attempted,         \* history: the ids ydl.download was invoked for
    outcomes,          \* history: what each invocation of ydl.download did
    slept,             \* history: the loop indexes after which the delay was applied
    ffmpeg_checked,    \* history: whether check_ffmpeg was called
    access_error,      \* history: whether the library raised a content-access error
    archive0,          \* the archive when the run started
    files0             \* the directory when the run started

normVars == <<norm_in, norm_out, norm_again>>
probeVars == <<probe, verdict>>
diskVars == <<archive, files>>
argVars == <<args_channel, count, include_shorts, sleep_seconds>>
runVars == <<channel_url, remaining_count, channel_urls, all_entries, entries_to_download, loop_i,
             downloaded_count, downloaded_list, downloaded_files, exit_code>>
envVars == <<palette, faults_left>>
histVars == <<listed, queried, attempted, outcomes, slept, ffmpeg_checked, access_error,
              archive0, files0>>

vars == <<pc, normVars, probeVars, diskVars, downloaded_ids, argVars, runVars, envVars, histVars>>

None == "None"

\* exit_code while the process has not exited
Running == 0 - 1

-----------------------------------------------------------------------------
(* Strings                                                                 *)

Whitespace == {" ", "\t", "\n"}

RECURSIVE LStrip(_)
LStrip(s) ==
    IF s = <<>> THEN s
    ELSE IF Head(s) \in Whitespace THEN LStrip(Tail(s)) ELSE s

RECURSIVE RStrip(_)
RStrip(s) ==
    IF s = <<>> THEN s
    ELSE IF s[Len(s)] \in Whitespace THEN RStrip(SubSeq(s, 1, Len(s) - 1)) ELSE s

\* str.strip()
Strip(s) == RStrip(LStrip(s))

\* str.startswith(p)
StartsWith(s, p) == Len(s) >= Len(p) /\ SubSeq(s, 1, Len(p)) = p

\* str.endswith(p)
EndsWith(s, p) == Len(s) >= Len(p) /\ SubSeq(s, Len(s) - Len(p) + 1, Len(s)) = p

\* p in s
Contains(s, p) ==
    \E i \in 1..(Len(s) - Len(p) + 1) : SubSeq(s, i, i + Len(p) - 1) = p

\* the sequences over alphabet A of length at most n
RECURSIVE SeqsUpTo(_, _)
SeqsUpTo(A, n) ==
    IF n = 0 THEN {<<>>}
    ELSE LET shorter == SeqsUpTo(A, n - 1)
         IN  shorter \cup {Append(s, c) : s \in {t \in shorter : Len(t) = n - 1}, c \in A}

\* n copies of character c
Pad(c, n) == [i \in 1..n |-> c]

-----------------------------------------------------------------------------
(* normalize_channel_url                                                   *)

HttpPrefix == <<"h","t","t","p">>
YoutubeRoot == <<"h","t","t","p","s",":","/","/","w","w","w",".","y","o","u","t","u","b","e",".","c","o","m","/">>
VideosSuffix == <<"/","v","i","d","e","o","s">>
ChannelPath == <<"c","h","a","n","n","e","l","/">>
ChannelIdLen == 24

\* A mutation: the @handle rule forgets the scheme and host prefix it builds on.
normalize_no_scheme(channel) ==
    LET c == Strip(channel)
    IN  IF StartsWith(c, HttpPrefix) THEN c
        ELSE IF StartsWith(c, <<"@">>) THEN <<"w","w","w",".","y","o","u","t","u","b","e",".","c","o","m","/">> \o c \o VideosSuffix
        ELSE IF StartsWith(c, <<"U","C">>) /\ Len(c) = ChannelIdLen
             THEN YoutubeRoot \o ChannelPath \o c \o VideosSuffix
        ELSE IF ~StartsWith(c, <<"/">>) THEN YoutubeRoot \o <<"@">> \o c \o VideosSuffix
        ELSE c

\* A mutation: the bare-handle rule is tried before the channel-ID rule.
normalize_handle_first(channel) ==
    LET c == Strip(channel)
    IN  IF StartsWith(c, HttpPrefix) THEN c
        ELSE IF StartsWith(c, <<"@">>) THEN YoutubeRoot \o c \o VideosSuffix
        ELSE IF ~StartsWith(c, <<"/">>) THEN YoutubeRoot \o <<"@">> \o c \o VideosSuffix
        ELSE IF StartsWith(c, <<"U","C">>) /\ Len(c) = ChannelIdLen
             THEN YoutubeRoot \o ChannelPath \o c \o VideosSuffix
        ELSE c

normalize_channel_url(channel) ==
    LET c == Strip(channel)
    IN  IF StartsWith(c, HttpPrefix) THEN c
        ELSE IF StartsWith(c, <<"@">>) THEN YoutubeRoot \o c \o VideosSuffix
        ELSE IF StartsWith(c, <<"U","C">>) /\ Len(c) = ChannelIdLen
             THEN YoutubeRoot \o ChannelPath \o c \o VideosSuffix
        ELSE IF ~StartsWith(c, <<"/">>) THEN YoutubeRoot \o <<"@">> \o c \o VideosSuffix
        ELSE c

\* Inputs of the normaliser: every short string over the characters its rules
\* look at, and long strings around the 24-character channel-ID length.
MaxNormLen == 4
MaxHeadLen == 2
NormChars == {"h", "t", "p", "@", "U", "C", "/", " ", "a"}
LongLens == {ChannelIdLen - 1, ChannelIdLen, ChannelIdLen + 1, ChannelIdLen + 2}
ShortInputs == SeqsUpTo(NormChars, MaxNormLen)
LongInputs ==
    {h \o Pad("a", n - Len(h) - Len(t)) \o t :
        h \in SeqsUpTo(NormChars, MaxHeadLen), t \in {<<>>, <<" ">>}, n \in LongLens}
NormInputs == ShortInputs \cup LongInputs

IdleNorm ==
    /\ norm_in = <<>>
    /\ norm_out = None
    /\ norm_again = None

IdleProbe ==
    /\ probe = None
    /\ verdict = None

IdleDisk ==
    /\ archive = <<>>
    /\ files = {}
    /\ downloaded_ids = {}

\* The variables of a run of main(), where no run is modelled.
IdleRun ==
    /\ args_channel = <<>>
    /\ count = 0
    /\ include_shorts = FALSE
    /\ sleep_seconds = 0
    /\ channel_url = <<>>
    /\ remaining_count = 0
    /\ channel_urls = <<>>
    /\ all_entries = <<>>
    /\ entries_to_download = <<>>
    /\ loop_i = 0
    /\ downloaded_count = 0
    /\ downloaded_list = <<>>
    /\ downloaded_files = <<>>
    /\ exit_code = Running
    /\ palette = {}
    /\ faults_left = 0
    /\ listed = <<>>
    /\ queried = <<>>
    /\ attempted = <<>>
    /\ outcomes = <<>>
    /\ slept = {}
    /\ ffmpeg_checked = FALSE
    /\ access_error = FALSE
    /\ archive0 = <<>>
    /\ files0 = {}

InitNorm ==
    /\ pc = "norm_start"
    /\ norm_in \in NormInputs
    /\ norm_out = None
    /\ norm_again = None
    /\ IdleProbe /\ IdleDisk /\ IdleRun

NormalizeOnce ==
    /\ pc = "norm_start"
    /\ norm_out' = normalize_channel_url(norm_in)
    /\ pc' = "norm_once"
    /\ UNCHANGED <<norm_in, norm_again, probeVars, diskVars, downloaded_ids, argVars, runVars, envVars, histVars>>

NormalizeAgain ==
    /\ pc = "norm_once"
    /\ norm_again' = normalize_channel_url(norm_out)
    /\ pc' = "norm_twice"
    /\ UNCHANGED <<norm_in, norm_out, probeVars, diskVars, downloaded_ids, argVars, runVars, envVars, histVars>>

NextNorm == NormalizeOnce \/ NormalizeAgain

SpecNorm == InitNorm /\ [][NextNorm]_vars

\* C8: normalising an already normalised channel reference returns it unchanged,
\* for every input form.
C8_Idempotent == pc = "norm_twice" => norm_again = norm_out

\* C8 witness: a 24-character channel ID was normalised twice, the first time changing it.
C8_Witness ==
    /\ pc = "norm_twice"
    /\ norm_in = <<"U","C">> \o Pad("a", ChannelIdLen - 2)
    /\ norm_out # norm_in
    /\ norm_again = norm_out

\* The input as the contract of the normaliser takes it: trimmed and non-empty.
Trimmed(s) == s # <<>> /\ s[1] \notin Whitespace /\ s[Len(s)] \notin Whitespace

\* The result the five ordered rules give, stated rule by rule on the characters.
RuleResult(x) ==
    IF Len(x) >= 4 /\ x[1] = "h" /\ x[2] = "t" /\ x[3] = "t" /\ x[4] = "p" THEN x
    ELSE IF x[1] = "@" THEN YoutubeRoot \o x \o VideosSuffix
    ELSE IF Len(x) = 24 /\ x[1] = "U" /\ x[2] = "C"
         THEN YoutubeRoot \o ChannelPath \o x \o VideosSuffix
    ELSE IF x[1] # "/" THEN YoutubeRoot \o <<"@">> \o x \o VideosSuffix
    ELSE x

\* C9: the rules apply in order, first match wins: http.. unchanged, @handle,
\* 24-character UC channel ID, bare handle, anything else unchanged.
C9_RulesInOrder ==
    (pc # "norm_start" /\ Trimmed(norm_in)) => norm_out = RuleResult(norm_in)

\* C9 witness: a 24-character UC identifier became the /channel/<id>/videos URL.
C9_Witness ==
    /\ pc = "norm_once"
    /\ norm_in = <<"U","C">> \o Pad("a", ChannelIdLen - 2)
    /\ norm_out = YoutubeRoot \o ChannelPath \o norm_in \o VideosSuffix

-----------------------------------------------------------------------------
(* get_downloaded_ids                                                      *)

Lower == {"a","b","c","d","e","f","g","h","i","j","k","l","m","n","o","p","q","r","s","t","u","v","w","x","y","z"}
Upper == {"A","B","C","D","E","F","G","H","I","J","K","L","M","N","O","P","Q","R","S","T","U","V","W","X","Y","Z"}
Digits == {"0","1","2","3","4","5","6","7","8","9"}
\* the character class [a-zA-Z0-9_-]
IdChars == Lower \cup Upper \cup Digits \cup {"_", "-"}
IdLen == 11
Mp4Suffix == <<".","m","p","4">>

\* the index of the first whitespace character of s, Len(s) + 1 when it has none
FirstSpace(s) ==
    IF \E i \in 1..Len(s) : s[i] \in Whitespace
    THEN CHOOSE i \in 1..Len(s) :
            s[i] \in Whitespace /\ \A j \in 1..(i - 1) : s[j] \notin Whitespace
    ELSE Len(s) + 1

\* str.split(): the maximal runs of non-whitespace characters, in order
RECURSIVE Split(_)
Split(s) ==
    LET t == LStrip(s)
    IN  IF t = <<>> THEN <<>>
        ELSE LET n == FirstSpace(t)
             IN  <<SubSeq(t, 1, n - 1)>> \o Split(SubSeq(t, n, Len(t)))

\* A mutation: the identifier is taken from the first token of a line (the provider name).
archive_ids_first_token(lines) ==
    {Split(Strip(lines[k]))[1] :
        k \in {j \in 1..Len(lines) :
                  LET line == Strip(lines[j])
                  IN  /\ line # <<>>
                      /\ ~StartsWith(line, <<"#">>)
                      /\ Len(Split(line)) >= 2}}

\* The identifiers of the archive's lines: "youtube <id>", as the three readers of
\* the archive parse it (strip, skip blank and # lines, split, take parts[1]).
archive_ids(lines) ==
    {Split(Strip(lines[k]))[2] :
        k \in {j \in 1..Len(lines) :
                  LET line == Strip(lines[j])
                  IN  /\ line # <<>>
                      /\ ~StartsWith(line, <<"#">>)
                      /\ Len(Split(line)) >= 2}}

\* re.compile(r'\[([a-zA-Z0-9_-]{11})\]\.mp4$').search(name): the set holding
\* group(1), empty when the pattern does not match. The pattern has a fixed
\* length and is anchored at the end, so it can only match at one place.
pattern_search(name) ==
    LET n == Len(name)
        start == n - (IdLen + 5)
    IN  IF /\ start >= 1
           /\ name[start] = "["
           /\ \A j \in (start + 1)..(start + IdLen) : name[j] \in IdChars
           /\ name[start + IdLen + 1] = "]"
           /\ SubSeq(name, start + IdLen + 2, n) = Mp4Suffix
        THEN {SubSeq(name, start + 1, start + IdLen)}
        ELSE {}

\* DOWNLOAD_DIR.glob('*.mp4')
glob_mp4(dir) == {name \in dir : EndsWith(name, Mp4Suffix)}

get_downloaded_ids(lines, dir) ==
    archive_ids(lines) \cup UNION {pattern_search(name) : name \in glob_mp4(dir)}

\* Archives and directories the tracker is tried on. A first line of any
\* characters (blank, comment, one token, two tokens, padded), then plain lines.
MaxLineLen == 3
MaxArchiveLines == 2
MaxFiles == 1
LineChars == {" ", "#", "a", "b"}
WideLines ==
    { <<" ","a"," ","b"," ">>, <<" "," ","#"," ","a"," ","b">>, <<"\t","y","\t","b">>,
      <<"y"," ","a"," ","b">>, <<"#","a"," ","b">> }
FirstLines == SeqsUpTo(LineChars, MaxLineLen) \cup WideLines
PlainLines == { <<"y"," ","b">>, <<"#"," ","a">> }
TrackerArchives ==
    {<<>>} \cup {<<l>> \o t : l \in FirstLines, t \in SeqsUpTo(PlainLines, MaxArchiveLines - 1)}

TitleT == <<"T"," ">>
FileIdA == <<"v","i","d","0","0","0","0","0","0","0","1">>
FileIdB == <<"_","-","Z","z","9","0","a","A","_","-","2">>
FileName(title, id, ext) == title \o <<"[">> \o id \o <<"]">> \o ext
TrackerFileNames ==
    { FileName(TitleT, FileIdA, Mp4Suffix),
      FileName(<<>>, FileIdB, Mp4Suffix),
      FileName(TitleT, SubSeq(FileIdA, 1, IdLen - 1), Mp4Suffix),
      FileName(TitleT, <<"x">> \o FileIdA, Mp4Suffix),
      FileName(TitleT, <<"v","i","d","!","0","0","0","0","0","0","3">>, Mp4Suffix),
      FileName(TitleT, FileIdA, <<".","m","k","v">>),
      FileName(TitleT, FileIdB, Mp4Suffix \o <<".","p","a","r","t">>),
      <<"a">> }
TrackerDirs == {d \in SUBSET TrackerFileNames : Cardinality(d) <= MaxFiles}

InitTracker ==
    /\ pc = "tracker_start"
    /\ archive \in TrackerArchives
    /\ files \in TrackerDirs
    /\ downloaded_ids = {}
    /\ IdleNorm /\ IdleProbe /\ IdleRun

TrackerRead ==
    /\ pc = "tracker_start"
    /\ downloaded_ids' = get_downloaded_ids(archive, files)
    /\ pc' = "tracker_done"
    /\ UNCHANGED <<normVars, probeVars, diskVars, argVars, runVars, envVars, histVars>>

NextTracker == TrackerRead

SpecTracker == InitTracker /\ [][NextTracker]_vars

\* A token of a line starts where a non-whitespace character follows the start
\* of the line or a whitespace character, and ends likewise.
TokenStart(line, i) ==
    line[i] \notin Whitespace /\ (i = 1 \/ line[i - 1] \in Whitespace)
TokenEnd(line, j) ==
    line[j] \notin Whitespace /\ (j = Len(line) \/ line[j + 1] \in Whitespace)

\* The second whitespace-separated token of every non-blank archive line whose
\* first token does not start with '#'.
SecondTokensOf(line) ==
    {SubSeq(line, i, j) :
        <<i, j>> \in
            {t \in (1..Len(line)) \X (1..Len(line)) :
                /\ t[1] <= t[2]
                /\ TokenStart(line, t[1]) /\ TokenEnd(line, t[2])
                /\ \A m \in t[1]..t[2] : line[m] \notin Whitespace
                /\ Cardinality({s \in 1..(t[1] - 1) : TokenStart(line, s)}) = 1
                /\ \A s \in 1..(t[1] - 1) : TokenStart(line, s) => line[s] # "#"}}

SecondTokens(lines) == UNION {SecondTokensOf(lines[k]) : k \in 1..Len(lines)}

\* The 11-character identifier of every file whose name ends in "[<id>].mp4".
BracketedIds(dir) ==
    {id \in UNION {{SubSeq(name, i, i + IdLen - 1) : i \in 1..(Len(name) - IdLen + 1)} : name \in dir} :
        /\ \A m \in 1..IdLen : id[m] \in IdChars
        /\ \E name \in dir : EndsWith(name, <<"[">> \o id \o <<"]",".","m","p","4">>)}

\* The DownloadedSet of an archive and a directory, as the data model defines it.
DownloadedSet(lines, dir) == SecondTokens(lines) \cup BracketedIds(dir)

\* C7: the tracked set is exactly the union of the archive's second tokens and
\* the identifiers bracketed at the end of the .mp4 file names.
C7_TrackedIsUnion ==
    pc = "tracker_done" => downloaded_ids = DownloadedSet(archive, files)

\* C7 witness: the set read holds one identifier from an archive line and one
\* from a file name, and nothing else.
C7_Witness ==
    /\ pc = "tracker_done"
    /\ <<"b">> \in downloaded_ids
    /\ FileIdA \in downloaded_ids
    /\ Cardinality(downloaded_ids) = 2

-----------------------------------------------------------------------------
(* Entries and is_public_video                                             *)

\* An optional string that is None, and an optional duration that is None: every
\* string is a sequence and every duration a number, so that they compare.
NoneStr == <<None>>
NoDuration == 0 - 1

\* Python truthiness of an optional string: None and '' are falsy.
Truthy(x) == x # NoneStr /\ x # <<>>

\* Python truthiness of an optional enumerated field (availability, live_status).
TruthyField(x) == x # None

UnknownId == <<"u","n","k","n","o","w","n">>

\* The identifier of the n-th video of a listing page: 11 characters of the class.
VideoId(n) == <<"v","i","d","0","0","0","0","0","0","0">> \o <<<<"0","1","2","3","4","5","6","7","8","9">>[n + 1]>>
\* The identifier of the n-th entry of a Shorts page.
ShortId(n) == <<"s","h","o","0","0","0","0","0","0","0">> \o <<<<"0","1","2","3","4","5","6","7","8","9">>[n + 1]>>
\* The identifier of the n-th video downloaded by an earlier run and no longer listed.
OldId(n) == <<"o","l","d","0","0","0","0","0","0","0">> \o <<<<"0","1","2","3","4","5","6","7","8","9">>[n + 1]>>

\* An entry of kind k carrying identifier id. A kind is the metadata of an
\* entry: title, availability, live_status, duration, path (of its page URL:
\* "watch" or "shorts") and description.
Entry(k, id) ==
    [id |-> id, title |-> k.title, availability |-> k.availability,
     live_status |-> k.live_status, duration |-> k.duration, path |-> k.path,
     description |-> k.description]

\* A mutation: an availability other than 'public' is let through.
is_public_video_any_availability(entry) ==
    LET video_id == IF entry.id = NoneStr THEN UnknownId ELSE entry.id
    IN  IF ~Truthy(video_id) \/ video_id = UnknownId THEN FALSE
        ELSE IF ~Truthy(entry.title) THEN FALSE
        ELSE TRUE

is_public_video(entry) ==
    LET video_id == IF entry.id = NoneStr THEN UnknownId ELSE entry.id
    IN  IF TruthyField(entry.availability) /\ entry.availability # "public" THEN FALSE
        ELSE IF ~Truthy(video_id) \/ video_id = UnknownId THEN FALSE
        ELSE IF ~Truthy(entry.title) THEN FALSE
        ELSE TRUE

Availabilities == {None, "public", "private", "unlisted"}
LiveStatuses == {None, "not_live", "is_live", "is_upcoming", "was_live"}

\* Entries is_public_video is tried on.
ProbeEntries ==
    [id : {NoneStr, VideoId(1)}, title : {NoneStr, <<>>, <<"T">>},
     availability : Availabilities, live_status : LiveStatuses,
     duration : {NoDuration, 30, 120}, path : {"watch", "shorts"},
     description : {NoneStr}]

InitClassify ==
    /\ pc = "probe_start"
    /\ probe \in ProbeEntries
    /\ verdict = None
    /\ IdleNorm /\ IdleDisk /\ IdleRun

ClassifyProbe ==
    /\ pc = "probe_start"
    /\ verdict' = is_public_video(probe)
    /\ pc' = "probe_done"
    /\ UNCHANGED <<normVars, probe, diskVars, downloaded_ids, argVars, runVars, envVars, histVars>>

NextClassify == ClassifyProbe

SpecClassify == InitClassify /\ [][NextClassify]_vars

\* C6: for an entry that carries an identifier, is_public_video is true exactly
\* when its availability is present and 'public', or its availability is absent
\* and it has a non-empty identifier and a non-empty title.
C6_PublicExactly ==
    (pc = "probe_done" /\ probe.id # NoneStr) =>
        (verdict <=>
            \/ probe.availability # None /\ probe.availability = "public"
            \/ /\ probe.availability = None
               /\ probe.id # <<>>
               /\ probe.title # NoneStr /\ probe.title # <<>>)

-----------------------------------------------------------------------------
(* download_videos: the helpers                                            *)

UpperSeq == <<"A","B","C","D","E","F","G","H","I","J","K","L","M","N","O","P","Q","R","S","T","U","V","W","X","Y","Z">>
LowerSeq == <<"a","b","c","d","e","f","g","h","i","j","k","l","m","n","o","p","q","r","s","t","u","v","w","x","y","z">>

\* str.lower()
ToLower(s) ==
    [j \in 1..Len(s) |->
        IF s[j] \in Upper THEN LowerSeq[CHOOSE n \in 1..26 : UpperSeq[n] = s[j]] ELSE s[j]]

WatchPath == <<"w","a","t","c","h","?","v","=">>
ShortsPath == <<"s","h","o","r","t","s","/">>

\* The page URL of a video: its watch URL, or its /shorts/ URL.
webpage_url(entry) ==
    YoutubeRoot \o (IF entry.path = "shorts" THEN ShortsPath ELSE WatchPath) \o entry.id

ShortsLimit == 60

\* match_filter(info_dict): None to accept, else the reason of the rejection.
match_filter(info_dict, shorts_wanted) ==
    IF TruthyField(info_dict.availability) /\ info_dict.availability # "public"
    THEN "not public"
    ELSE IF ~shorts_wanted /\ Contains(ToLower(webpage_url(info_dict)), <<"/","s","h","o","r","t","s","/">>)
    THEN "shorts url"
    ELSE IF /\ ~shorts_wanted
            /\ info_dict.duration # NoDuration /\ info_dict.duration # 0
            /\ info_dict.duration < ShortsLimit
    THEN IF \/ Contains(ToLower(info_dict.title), <<"s","h","o","r","t","s">>)
            \/ Contains(ToLower(info_dict.description), <<"s","h","o","r","t","s">>)
         THEN "short duration and shorts in text"
         ELSE "short duration"
    ELSE None

\* ydl_opts['match_filter']: the filter is installed only when Shorts are not wanted.
Filtered(entry, shorts_wanted) ==
    ~shorts_wanted /\ match_filter(entry, shorts_wanted) # None

ExtractFactor == 5
ExtractCap == 50

Min(a, b) == IF a <= b THEN a ELSE b
Max(a, b) == IF a >= b THEN a ELSE b

\* A mutation: the videos already present are not subtracted from the target.
remaining_ignoring_existing(target, existing_count) == target

\* remaining_count: how many new videos this run is to download
remaining_of(target, existing_count) == Max(0, target - existing_count)

\* A mutation: the loop stops one success late.
target_passed(n, remaining) == n > remaining

\* the test that ends the loop: the successes of this run reached remaining_count
target_reached(n, remaining) == n >= remaining

\* playlist_extract_count, passed to the library as 'playlistend'
playlist_extract_count(remaining) ==
    IF remaining > 0 THEN Min(remaining * ExtractFactor, ExtractCap) ELSE 0

\* str.rstrip('/')
RECURSIVE RStripSlash(_)
RStripSlash(s) ==
    IF s = <<>> THEN s
    ELSE IF s[Len(s)] = "/" THEN RStripSlash(SubSeq(s, 1, Len(s) - 1)) ELSE s

ShortsSuffix == <<"/","s","h","o","r","t","s">>
PlaylistPath == <<"/","p","l","a","y","l","i","s","t">>

\* channel_urls: the listing pages to fetch for a channel URL
channel_urls_of(url, shorts_wanted) ==
    IF Contains(url, PlaylistPath) THEN <<url>>
    ELSE IF Contains(url, VideosSuffix) \/ Contains(url, ShortsSuffix)
    THEN <<url>>
    ELSE LET base_url == RStripSlash(url)
         IN  IF shorts_wanted
             THEN <<base_url \o VideosSuffix, base_url \o ShortsSuffix>>
             ELSE <<base_url \o VideosSuffix>>

SortParams == <<"v","i","e","w","=","0","&","s","o","r","t","=","d","d">>

\* channel_urls_with_params: each URL with the newest-first sort parameters
with_params(url) ==
    IF Contains(url, <<"?">>)
    THEN IF /\ ~Contains(url, <<"v","i","e","w","=","0">>)
            /\ ~Contains(url, <<"s","o","r","t","=","d","d">>)
         THEN url \o <<"&">> \o SortParams
         ELSE url
    ELSE url \o <<"?">> \o SortParams

channel_urls_with_params(url, shorts_wanted) ==
    LET urls == channel_urls_of(url, shorts_wanted)
    IN  [j \in 1..Len(urls) |-> with_params(urls[j])]

\* The entries of `entries` with an id, the first of every id only (seen_ids).
RECURSIVE dedup_from(_, _, _)
dedup_from(entries, j, seen_ids) ==
    IF j > Len(entries) THEN <<>>
    ELSE LET video_id == entries[j].id
         IN  IF Truthy(video_id) /\ video_id \notin seen_ids
             THEN <<entries[j]>> \o dedup_from(entries, j + 1, seen_ids \cup {video_id})
             ELSE dedup_from(entries, j + 1, seen_ids)

dedup(entries) == dedup_from(entries, 1, {})

LiveSet == {"is_live", "is_upcoming", "was_live"}

\* A mutation: was_live is missing from the live statuses skipped.
keep_entry_live_gap(entry, tracked) ==
    /\ Truthy(entry.id)
    /\ entry.live_status \notin {"is_live", "is_upcoming"}
    /\ is_public_video(entry)
    /\ entry.id \notin tracked

\* The filter of the listing: an entry is kept when it has an id, is not a live
\* or upcoming broadcast, is public and is not already downloaded.
keep_entry(entry, tracked) ==
    /\ Truthy(entry.id)
    /\ entry.live_status \notin LiveSet
    /\ is_public_video(entry)
    /\ entry.id \notin tracked

filter_entries(entries, tracked) ==
    SelectSeq(entries, LAMBDA e : keep_entry(e, tracked))

\* The archive line the library appends for a video; the file it writes
\* (outtmpl '%(title)s [%(id)s].%(ext)s'); the file of one stream, which is
\* gone once the streams are merged.
ArchiveLine(id) == <<"y","o","u","t","u","b","e"," ">> \o id
FinalName(title, id) == title \o <<" ","[">> \o id \o <<"]">> \o Mp4Suffix
PartName(title, id) == title \o <<" ","[">> \o id \o <<"]",".","f","1","4","0",".","m","4","a">>

\* A mutation: the directory is never searched.
glob_video_never(video_id, dir) == {}

\* DOWNLOAD_DIR.glob(f'* [{video_id}].mp4'): in a glob pattern the brackets make
\* a character class, so the pattern matches the names that end in a space, one
\* character of the id and ".mp4". (Identifiers without '-' : no ranges.)
glob_video(video_id, dir) ==
    {name \in dir :
        /\ Len(name) >= 6
        /\ EndsWith(name, Mp4Suffix)
        /\ name[Len(name) - 5] = " "
        /\ \E j \in 1..Len(video_id) : name[Len(name) - 4] = video_id[j]}

-----------------------------------------------------------------------------
(* The channel and the library, as a run meets them                        *)

MaxCount == 2
MaxTracked == 1
MaxLead == 5
MaxTail == 1

PlainKind ==
    [title |-> <<"T">>, availability |-> "public", live_status |-> "not_live",
     duration |-> 120, path |-> "watch", description |-> NoneStr]
PrivateKind == [PlainKind EXCEPT !.availability = "private"]
ShortKind == [PlainKind EXCEPT !.duration = 30, !.path = "shorts"]

\* The kinds a page of the channel holds in a run of the download loop, and in
\* a run of the listing filter.
LoopKinds == {PlainKind, PrivateKind, ShortKind}
ListingKinds ==
    [title : {NoneStr, <<"T">>}, availability : Availabilities,
     live_status : LiveStatuses, duration : {30, 120}, path : {"watch"},
     description : {NoneStr}]
TailKinds == {PlainKind, PrivateKind}

\* n entries of kind k, the videos number from + 1 .. from + n of the page
Block(k, n, from) == [j \in 1..n |-> Entry(k, VideoId(from + j))]

\* What the /videos page (or the page of any other URL given) may hold, newest
\* first: a run of entries of one kind, then a run of another.
VideoPages(kinds) ==
    {Block(x, a, 0) \o Block(y, b, a) :
        x \in kinds, a \in 0..MaxLead, y \in TailKinds, b \in 0..MaxTail}

\* What the /shorts page may hold: a Short, and a video the /videos page lists too.
ShortPages ==
    { <<>>, <<Entry(ShortKind, ShortId(1)), Entry(PlainKind, VideoId(1))>> }

IsShortsPage(url) == Contains(url, ShortsSuffix)

\* What ydl.extract_info(url, download=False) may do: return the page's first
\* 'playlistend' entries, return nothing usable, or raise.
ListingResults(url, kinds) ==
    {[kind |-> "entries", page |-> pg] :
        pg \in IF IsShortsPage(url) THEN ShortPages ELSE VideoPages(kinds)}
    \cup {[kind |-> k, page |-> <<>>] : k \in {"no_info", "raise_access", "raise_other"}}

\* What ydl.download([video_url]) may do: raise, or return having appended the
\* archive line or not, written the file or not, and called progress_hook with
\* the final file, with a stream's file, or not at all.
Outcomes ==
    [raise : {"none", "access", "other"}, archive : BOOLEAN, file : BOOLEAN,
     hook : {"none", "final", "part"}]
NothingDone == [raise |-> "none", archive |-> FALSE, file |-> FALSE, hook |-> "none"]
Raises == {o \in Outcomes : o.raise # "none" /\ ~o.archive /\ ~o.file /\ o.hook = "none"}
Returns == {o \in Outcomes : o.raise = "none"}
\* the download went through: archive line appended, file written, hook called
Succeeds == {o \in Returns : o.archive /\ o.file /\ o.hook # "none"}

\* The outcomes a run may meet for an entry: an entry the match_filter rejects
\* is not downloaded; any other is downloaded, or, while the run's allowance of
\* irregular outcomes lasts, anything else happens.
OutcomesFor(entry, shorts_wanted, faults) ==
    (IF Filtered(entry, shorts_wanted) THEN {NothingDone} ELSE Succeeds)
    \cup (IF faults > 0 THEN Raises \cup Returns ELSE {})

Regular(entry, shorts_wanted, o) ==
    IF Filtered(entry, shorts_wanted) THEN o = NothingDone ELSE o \in Succeeds

-----------------------------------------------------------------------------
(* main and download_videos                                                *)

RunChannels ==
    { <<"@","a">>,
      <<"h","t","t","p","s",":","/","/","w","w","w",".","y","o","u","t","u","b","e",".","c","o","m","/","@","a">> }

\* The archive and the directory earlier runs left: lines for videos no longer
\* listed, files of the newest videos of the channel.
OldArchive(n) == [j \in 1..n |-> ArchiveLine(OldId(j))]
OldFiles(n) == {FinalName(<<"T">>, VideoId(j)) : j \in 1..n}

InitRunIn(kinds, faults, channels, delays, strays) ==
    /\ pc = "main"
    /\ args_channel \in channels
    /\ count \in 1..MaxCount
    /\ include_shorts \in BOOLEAN
    /\ sleep_seconds \in delays
    /\ \E n \in 0..MaxTracked, m \in 0..MaxTracked :
          /\ n + m <= MaxTracked
          /\ archive = OldArchive(n)
          /\ \E other \in strays : files = OldFiles(m) \cup other
    /\ archive0 = archive
    /\ files0 = files
    /\ downloaded_ids = {}
    /\ channel_url = <<>>
    /\ remaining_count = 0
    /\ channel_urls = <<>>
    /\ all_entries = <<>>
    /\ entries_to_download = <<>>
    /\ loop_i = 0
    /\ downloaded_count = 0
    /\ downloaded_list = <<>>
    /\ downloaded_files = <<>>
    /\ exit_code = Running
    /\ palette = kinds
    /\ faults_left = faults
    /\ listed = <<>>
    /\ queried = <<>>
    /\ attempted = <<>>
    /\ outcomes = <<>>
    /\ slept = {}
    /\ ffmpeg_checked = FALSE
    /\ access_error = FALSE
    /\ IdleNorm /\ IdleProbe

\* A run that starts with a directory holding only files of earlier runs.
InitRun(kinds, faults, channels, delays) ==
    InitRunIn(kinds, faults, channels, delays, {{}})

\* main() up to the early return of download_videos: normalise the channel,
\* read the downloaded ids, compute remaining_count; with nothing left to
\* download, download_videos returns [] and main exits with 0.
StartRun ==
    /\ pc = "main"
    /\ LET ids == get_downloaded_ids(archive, files)
           existing_count == Cardinality(ids)
           remaining == remaining_of(count, existing_count)
       IN  /\ channel_url' = normalize_channel_url(args_channel)
           /\ downloaded_ids' = ids
           /\ remaining_count' = remaining
           /\ IF remaining = 0
              THEN pc' = "exited" /\ exit_code' = 0
              ELSE pc' = "ffmpeg" /\ exit_code' = exit_code
    /\ UNCHANGED <<normVars, probeVars, diskVars, argVars, channel_urls, all_entries,
                   entries_to_download, loop_i, downloaded_count, downloaded_list,
                   downloaded_files, envVars, histVars>>

\* check_ffmpeg / install_ffmpeg: without ffmpeg the process exits with 2;
\* with it, the options and the listing URLs are prepared.
CheckFfmpeg ==
    /\ pc = "ffmpeg"
    /\ ffmpeg_checked' = TRUE
    /\ \E has_ffmpeg \in BOOLEAN :
        IF has_ffmpeg
        THEN /\ channel_urls' = channel_urls_with_params(channel_url, include_shorts)
             /\ pc' = "extract"
             /\ exit_code' = exit_code
        ELSE /\ channel_urls' = channel_urls
             /\ pc' = "exited"
             /\ exit_code' = 2
    /\ UNCHANGED <<normVars, probeVars, diskVars, downloaded_ids, argVars, channel_url,
                   remaining_count, all_entries, entries_to_download, loop_i,
                   downloaded_count, downloaded_list, downloaded_files, envVars,
                   listed, queried, attempted, outcomes, slept, access_error,
                   archive0, files0>>

\* One turn of the loop over channel_urls_with_params: extract_info on the next
\* URL; its entries are gathered, an exception is logged and the loop goes on.
ExtractPage ==
    /\ pc = "extract"
    /\ Len(queried) < Len(channel_urls)
    /\ LET url == channel_urls[Len(queried) + 1]
           playlistend == playlist_extract_count(remaining_count)
       IN  \E r \in ListingResults(url, palette) :
              /\ queried' = Append(queried, url)
              /\ listed' = Append(listed, r.page)
              /\ all_entries' =
                    IF r.kind = "entries"
                    THEN all_entries \o SubSeq(r.page, 1, Min(Len(r.page), playlistend))
                    ELSE all_entries
              /\ access_error' = (access_error \/ r.kind = "raise_access")
    /\ UNCHANGED <<pc, normVars, probeVars, diskVars, downloaded_ids, argVars, channel_url,
                   remaining_count, channel_urls, entries_to_download, loop_i,
                   downloaded_count, downloaded_list, downloaded_files, exit_code,
                   envVars, attempted, outcomes, slept, ffmpeg_checked, archive0, files0>>

\* After the pages: no entry at all exits with 1; the entries are deduplicated
\* by id and filtered; with nothing left download_videos returns [] (exit 0).
Classify ==
    /\ pc = "extract"
    /\ Len(queried) = Len(channel_urls)
    /\ LET entries == dedup(all_entries)
           filtered_entries == filter_entries(entries, downloaded_ids)
       IN  IF all_entries = <<>>
           THEN pc' = "exited" /\ exit_code' = 1
                /\ UNCHANGED <<entries_to_download, loop_i>>
           ELSE IF entries = <<>> \/ filtered_entries = <<>>
           THEN pc' = "exited" /\ exit_code' = 0
                /\ UNCHANGED <<entries_to_download, loop_i>>
           ELSE /\ pc' = "loop" /\ exit_code' = exit_code
                /\ entries_to_download' = filtered_entries
                /\ loop_i' = 1
    /\ UNCHANGED <<normVars, probeVars, diskVars, downloaded_ids, argVars, channel_url,
                   remaining_count, channel_urls, all_entries, downloaded_count,
                   downloaded_list, downloaded_files, envVars, histVars>>

\* A mutation: an exception in one download ends the loop.
loop_ends_on_raise(raised, break, last) == raised \/ break \/ last

\* Whether the loop over entries_to_download ends after this turn: on a break,
\* or with the last entry; an exception only skips to the next entry.
loop_ends(raised, break, last) == break \/ last

\* A mutation: the delay is applied after the last candidate too.
sleep_due_after_last(seconds, n, target, idx, total) == seconds > 0 /\ n < target

\* the condition of the delay between downloads
sleep_due(seconds, n, target, idx, total) == seconds > 0 /\ n < target /\ idx < total

\* One turn of the loop over entries_to_download, for the library's outcome o.
Attempt(o) ==
    LET entry == entries_to_download[loop_i]
        video_id == entry.id
        title == entry.title
        hooks0 == [v \in DOMAIN downloaded_files \ {video_id} |-> downloaded_files[v]]
        raised == o.raise # "none"
        archive1 == IF o.archive THEN Append(archive, ArchiveLine(video_id)) ELSE archive
        files1 == IF o.file THEN files \cup {FinalName(title, video_id)} ELSE files
        hooks1 == IF o.hook = "final" THEN (video_id :> FinalName(title, video_id)) @@ hooks0
                  ELSE IF o.hook = "part" THEN (video_id :> PartName(title, video_id)) @@ hooks0
                  ELSE hooks0
        by_archive == video_id \in archive_ids(archive1)
        by_hook == video_id \in DOMAIN hooks1 /\ hooks1[video_id] \in files1
        by_glob == glob_video(video_id, files1) # {}
        download_success == by_archive \/ by_hook \/ by_glob
        candidates == IF video_id \in DOMAIN hooks1 THEN {hooks1[video_id]}
                      ELSE glob_video(video_id, files1)
        found == {f \in candidates : f \in files1}
        counted == ~raised /\ download_success
        count1 == IF counted THEN downloaded_count + 1 ELSE downloaded_count
        break == counted /\ target_reached(count1, remaining_count)
        last == loop_i = Len(entries_to_download)
    IN  /\ archive' = archive1
        /\ files' = files1
        /\ downloaded_files' = hooks1
        /\ downloaded_count' = count1
        /\ IF counted /\ found # {}
           THEN \E f \in found :
                   downloaded_list' = Append(downloaded_list,
                       [title |-> title, id |-> video_id, path |-> f,
                        duration |-> entry.duration])
           ELSE downloaded_list' = downloaded_list
        /\ slept' = IF /\ ~raised /\ ~break
                       /\ sleep_due(sleep_seconds, count1, count, loop_i,
                                    Len(entries_to_download))
                    THEN slept \cup {loop_i} ELSE slept
        /\ attempted' = Append(attempted, video_id)
        /\ outcomes' = Append(outcomes, o)
        /\ access_error' = (access_error \/ o.raise = "access")
        /\ faults_left' = IF Regular(entry, include_shorts, o) THEN faults_left
                          ELSE faults_left - 1
        /\ IF loop_ends(raised, break, last)
           THEN pc' = "exited" /\ exit_code' = 0 /\ loop_i' = loop_i
           ELSE pc' = "loop" /\ exit_code' = exit_code /\ loop_i' = loop_i + 1

\* The body of the download loop for the entry at loop_i, with the return of
\* download_videos and main's exit when the loop ends.
DownloadCandidate ==
    /\ pc = "loop"
    /\ IF target_reached(downloaded_count, remaining_count)
       THEN /\ pc' = "exited" /\ exit_code' = 0
            /\ UNCHANGED <<diskVars, loop_i, downloaded_count, downloaded_list,
                           downloaded_files, faults_left, slept, attempted, outcomes,
                           access_error>>
       ELSE \E o \in OutcomesFor(entries_to_download[loop_i], include_shorts, faults_left) :
               Attempt(o)
    /\ UNCHANGED <<normVars, probeVars, downloaded_ids, argVars, channel_url,
                   remaining_count, channel_urls, all_entries, entries_to_download,
                   palette, listed, queried, ffmpeg_checked, archive0, files0>>

\* Runs of the download loop: one channel reference, pages of plain, private
\* and short videos, the delay set or not, and a library that may once do
\* anything at all.
Init == InitRun(LoopKinds, 1, {<<"@","a">>}, {0, 1})

Next == StartRun \/ CheckFfmpeg \/ ExtractPage \/ Classify \/ DownloadCandidate

Spec == Init /\ [][Next]_vars

\* Runs of the listing: every channel reference of RunChannels, pages of every
\* kind of entry, no delay, a library whose downloads go through.
InitListing == InitRun(ListingKinds, 0, RunChannels, {0})

SpecListing == InitListing /\ [][Next]_vars

-----------------------------------------------------------------------------
(* The download loop                                                       *)

\* RemainingCount = max(0, N - |DownloadedSet at start|)
RemainingCount == Max(0, count - Cardinality(DownloadedSet(archive0, files0)))

\* C1: the successes counted in a run never exceed RemainingCount, and once
\* they equal it the external download is not invoked again.
C1_NeverExceeds ==
    /\ [](downloaded_count <= RemainingCount)
    /\ [][downloaded_count = RemainingCount => attempted' = attempted]_vars

\* C1 witness: the run ended on reaching RemainingCount while eligible
\* candidates were still unexamined.
C1_Witness ==
    /\ pc = "exited"
    /\ RemainingCount >= 1
    /\ downloaded_count = RemainingCount
    /\ Len(attempted) = loop_i
    /\ loop_i < Len(entries_to_download)

\* C2: with RemainingCount 0 at start the run returns no record, and has not
\* checked for ffmpeg, queried a listing, invoked a download or changed the
\* archive or the directory.
C2_NothingToDo ==
    (pc # "main" /\ RemainingCount = 0) =>
        /\ pc = "exited" /\ exit_code = 0
        /\ downloaded_list = <<>>
        /\ ~ffmpeg_checked
        /\ queried = <<>>
        /\ attempted = <<>>
        /\ archive = archive0 /\ files = files0

\* C2 witness: a run ended with as many videos tracked at start as the target.
C2_Witness ==
    /\ pc = "exited"
    /\ count >= 1
    /\ Cardinality(DownloadedSet(archive0, files0)) >= count
    /\ downloaded_ids # {}

\* A public, non-live, long-form video, as a page of the channel lists it.
LongFormPublic(e) ==
    /\ e.id # NoneStr /\ e.title # NoneStr
    /\ e.availability = "public"
    /\ e.live_status \notin {"is_live", "is_upcoming", "was_live"}
    /\ e.duration >= 60 /\ e.path = "watch"

\* The identifiers of the further videos of that sort the channel lists: those
\* not tracked at start.
FurtherIds ==
    {listed[p][j].id : <<p, j>> \in
        {t \in (1..Len(listed)) \X (1..(MaxLead + MaxTail)) :
            /\ t[2] <= Len(listed[t[1]])
            /\ LongFormPublic(listed[t[1]][t[2]])
            /\ listed[t[1]][t[2]].id \notin DownloadedSet(archive0, files0)}}

\* C3: with k < N identifiers tracked at start, at least N - k further public,
\* non-live, long-form videos listed and every download succeeding, the run ends
\* with exactly N - k records, invocations, new archive lines and new files.
C3_ExactlyRemaining ==
    LET k == Cardinality(DownloadedSet(archive0, files0))
    IN  ( /\ pc = "exited"
          /\ k < count
          /\ Cardinality(FurtherIds) >= count - k
          /\ \A n \in 1..Len(outcomes) :
                outcomes[n].raise = "none" /\ outcomes[n].archive /\ outcomes[n].file )
        => /\ Len(downloaded_list) = count - k
           /\ Len(attempted) = count - k
           /\ Len(archive) - Len(archive0) = count - k
           /\ Cardinality(BracketedIds(files \ files0)) = count - k

\* C10: a run in which the library raised a content-access error ends with
\* exit code 0.
C10_AccessErrorExitsZero ==
    (pc = "exited" /\ access_error) => exit_code = 0

-----------------------------------------------------------------------------
(* The listing filter                                                      *)

\* the download is invoked for the entries of the eligible sequence, in order
AttemptsFollowEligible ==
    /\ Len(attempted) <= Len(entries_to_download)
    /\ \A j \in 1..Len(attempted) : attempted[j] = entries_to_download[j].id

NonPublic(e) == e.availability # None /\ e.availability # "public"

\* C4: an entry whose availability is present and not 'public' is never in the
\* eligible sequence, and the download is never invoked for it.
C4_NonPublicNeverAttempted ==
    /\ \A j \in 1..Len(entries_to_download) : ~NonPublic(entries_to_download[j])
    /\ AttemptsFollowEligible

\* C4 witness: a run listed an entry that only its availability excludes, and
\* downloaded others.
C4_Witness ==
    /\ pc = "exited"
    /\ attempted # <<>>
    /\ \E j \in 1..Len(all_entries) :
          /\ all_entries[j].availability = "private"
          /\ all_entries[j].title # NoneStr
          /\ all_entries[j].live_status = "not_live"
          /\ all_entries[j].id \notin downloaded_ids

IsLive(e) == e.live_status \in {"is_live", "is_upcoming", "was_live"}

\* C5: an entry whose live_status is is_live, is_upcoming or was_live is
\* rejected by the filter whatever its other fields, and the download is never
\* invoked for it.
C5_LiveNeverAttempted ==
    /\ \A j \in 1..Len(entries_to_download) : ~IsLive(entries_to_download[j])
    /\ AttemptsFollowEligible

\* C5 witness: a run listed a public, titled, untracked entry that only its
\* live_status excludes, and downloaded others.
C5_Witness ==
    /\ pc = "exited"
    /\ attempted # <<>>
    /\ \E j \in 1..Len(all_entries) :
          /\ all_entries[j].live_status = "was_live"
          /\ all_entries[j].availability = "public"
          /\ all_entries[j].title # NoneStr
          /\ all_entries[j].id \notin downloaded_ids

-----------------------------------------------------------------------------
(* The listing pages                                                       *)

\* the channel reference is an @handle, a channel ID or a bare handle
HandleForm(c) ==
    LET t == Strip(c)
    IN  t # <<>> /\ ~StartsWith(t, HttpPrefix) /\ ~StartsWith(t, <<"/">>)

\* the '/shorts' sibling of a URL that ends in '/videos'
SiblingShorts(url) ==
    SubSeq(url, 1, Len(url) - Len(VideosSuffix)) \o ShortsSuffix

\* every listing URL of the run has been passed to extract_info
ListingDone == channel_urls # <<>> /\ Len(queried) = Len(channel_urls)

\* C11: with Shorts requested and an @handle, channel ID or bare handle given,
\* two pages are fetched, in this order: the '/videos' page the normaliser
\* produced and its '/shorts' sibling.
C11_ShortsSiblingFetched ==
    (ListingDone /\ include_shorts /\ HandleForm(args_channel)) =>
        /\ EndsWith(channel_url, VideosSuffix)
        /\ Len(queried) = 2
        /\ StartsWith(queried[1], channel_url)
        /\ StartsWith(queried[2], SiblingShorts(channel_url))

-----------------------------------------------------------------------------
(* match_filter, as installed when Shorts are not requested                *)

FilterDurations == {NoDuration, 0, 1, 59, 60, 61}

\* The info_dicts match_filter is tried on.
FilterInputs ==
    [id : {VideoId(1)},
     title : {NoneStr, <<"T">>, <<"S","h","o","r","t","s">>},
     availability : Availabilities, live_status : {"not_live"},
     duration : FilterDurations, path : {"watch", "shorts"},
     description : {NoneStr, <<"s","h","o","r","t","s">>}]

InitFilter ==
    /\ pc = "filter_start"
    /\ probe \in FilterInputs
    /\ verdict = None
    /\ IdleNorm /\ IdleDisk /\ IdleRun

\* The library applies ydl_opts['match_filter'] to the video's info_dict.
ApplyFilter ==
    /\ pc = "filter_start"
    /\ verdict' = IF include_shorts THEN None ELSE match_filter(probe, include_shorts)
    /\ pc' = "filter_done"
    /\ UNCHANGED <<normVars, probe, diskVars, downloaded_ids, argVars, runVars, envVars, histVars>>

NextFilter == ApplyFilter

SpecFilter == InitFilter /\ [][NextFilter]_vars

\* the rejections of a video as a Short
ShortRejections == {"shorts url", "short duration and shorts in text", "short duration"}

\* C12: when Shorts are not requested, match_filter rejects every video whose
\* duration is below 60 seconds, a duration of 0 included, whatever its title
\* and description; a video of 60 seconds or more whose URL has no '/shorts/'
\* is not rejected as a Short.
C12_ShortDurationRejected ==
    (pc = "filter_done" /\ ~include_shorts /\ probe.duration # NoDuration) =>
        /\ probe.duration < 60 => verdict # None
        /\ (probe.duration >= 60 /\ probe.path # "shorts") => verdict \notin ShortRejections

-----------------------------------------------------------------------------
(* The detection of a success                                              *)

\* A file an earlier run did not write: its name carries no bracketed id.
StrayName == <<"T"," ","0",".","m","p","4">>

\* Runs whose directory may hold such a file at start: Shorts not requested,
\* pages of plain and short videos, no delay, a library that may once do
\* anything at all.
InitStray ==
    /\ InitRunIn({PlainKind, ShortKind}, 1, {<<"@","a">>}, {0}, {{}, {StrayName}})
    /\ include_shorts = FALSE

SpecStray == InitStray /\ [][Next]_vars

\* name matches the glob pattern '* [<id>].mp4': anything, a space, one
\* character out of those between the brackets, and '.mp4'
PatternMatches(name, id) ==
    LET n == Len(name)
    IN  /\ n >= 6
        /\ SubSeq(name, n - 3, n) = <<".","m","p","4">>
        /\ name[n - 5] = " "
        /\ name[n - 4] \in {id[j] : j \in 1..Len(id)}

\* The three signals of a success for id, over an archive, the paths the
\* progress hook recorded and a directory.
InArchive(id, arch) == id \in SecondTokens(arch)
HookResolves(id, hooks, dir) == id \in DOMAIN hooks /\ hooks[id] \in dir
GlobResolves(id, dir) == \E name \in dir : PatternMatches(name, id)
Signals(id, arch, hooks, dir) ==
    InArchive(id, arch) \/ HookResolves(id, hooks, dir) \/ GlobResolves(id, dir)

\* this step invoked the external download
Invoked == Len(attempted') = Len(attempted) + 1

Counted == downloaded_count' = downloaded_count + 1

\* C14: on every success a record is appended whenever the hook's path or,
\* failing that, a match of the glob is an existing file, the hook's path being
\* preferred; it is omitted only when neither is, the success still being
\* counted; so the records never outnumber the successes counted.
C14_RecordWhenResolved ==
    /\ [](Len(downloaded_list) <= downloaded_count)
    /\ [][Counted =>
            LET id == attempted'[Len(attempted')]
                by_hook == HookResolves(id, downloaded_files', files')
                by_glob == GlobResolves(id, files')
                record == downloaded_list'[Len(downloaded_list')]
            IN  /\ (by_hook \/ by_glob) =>
                      /\ Len(downloaded_list') = Len(downloaded_list) + 1
                      /\ record.id = id
                      /\ by_hook => record.path = downloaded_files'[id]
                      /\ ~by_hook => PatternMatches(record.path, id)
                /\ ~(by_hook \/ by_glob) => downloaded_list' = downloaded_list]_vars

-----------------------------------------------------------------------------
(* Exceptions and the delay                                                *)

\* C15: an exception raised by the download of a candidate leaves the success
\* count and the records unchanged, and the loop goes on to the next candidate,
\* or ends normally (exit code 0) when there is none.
C15_RaiseSkipsCandidate ==
    [][(Invoked /\ outcomes'[Len(outcomes')].raise # "none") =>
          /\ downloaded_count' = downloaded_count
          /\ downloaded_list' = downloaded_list
          /\ loop_i < Len(entries_to_download) =>
                pc' = "loop" /\ loop_i' = loop_i + 1 /\ exit_code' = Running
          /\ loop_i = Len(entries_to_download) =>
                pc' = "exited" /\ exit_code' = 0]_vars

\* C15 witness: the first download raised, and the run went on to download the
\* next candidate.
C15_Witness ==
    /\ Len(attempted) >= 2
    /\ outcomes[1].raise # "none"
    /\ outcomes[2] \in Succeeds
    /\ downloaded_count = 1
    /\ Len(downloaded_list) = 1

\* C16: the delay is applied after a candidate only when the configured delay
\* is positive, the success count is still below RemainingCount and a further
\* candidate remains; never after the last candidate or once the target is
\* reached.
C16_DelayOnlyWhenNeeded ==
    [][slept' # slept =>
          /\ slept' = slept \cup {loop_i}
          /\ sleep_seconds > 0
          /\ downloaded_count' < RemainingCount
          /\ loop_i < Len(entries_to_download)]_vars

\* C16 witness: a run with a positive delay slept after its first candidate
\* and not after its second, which reached the target or was the last.
C16_Witness ==
    /\ pc = "exited"
    /\ sleep_seconds > 0
    /\ Len(attempted) = 2
    /\ slept = {1}

-----------------------------------------------------------------------------
(* Evidence that pre-dates an attempt                                      *)

=============================================================================
